---- MODULE Spec2Model ----
(***************************************************************************)
(* Model of pyhomematic/devicetypes/generic.py: one HMDevice, its          *)
(* HMChannel children, the paramset cache, the unreach flag and the event  *)
(* callbacks of each of them, and the XML-RPC proxy they call.             *)
(*                                                                         *)
(* Python values are written as strings: "None", "True", "False".  An      *)
(* entity is named by its channel index; the device itself is Dev.         *)
(*                                                                         *)
(* Every method is one action.  It leaves in ret what the call was, what   *)
(* it returned or raised, the proxy calls it made and the callbacks it     *)
(* invoked, in their order; Return hands that to the caller, and only then *)
(* the next call starts.                                                   *)
(***************************************************************************)
EXTENDS Integers, Sequences, FiniteSets, TLC

\* ------------------------------------------------------------------ bounds
\* Largest channel index a device of the model may own.
MaxChild == 2
\* Most callbacks registered on the device and its channels together.
MaxRegistered == 4
\* Largest channel index of the device in the behaviours that run callbacks or push
\* paramsets.
MaxChildFew == 1

\* --------------------------------------------------------------- constants
PARAM_UNREACH == "UNREACH"
PARAMSET_VALUES == "VALUES"

\* The device itself: channel 0 of setEventCallback.
Dev == 0
\* The channel indices a device may own.
ChildIdx == 1..MaxChild

\* Events the server delivers: (key, value).
EventInputs == {<<PARAM_UNREACH, "True">>, <<PARAM_UNREACH, "False">>, <<"STATE", "True">>}
InterfaceIds == {"if1"}
\* Two callables and one object without __call__.
Callbacks == {"cbA", "cbB"}
CallbackArgs == Callbacks \cup {"notCallable"}
\* channel arguments of HMDevice.setEventCallback: the device, children, one past the last.
ChannelArgs == 0..(MaxChild + 1)

VARIABLES
    CHILDREN,        \* keys of HMDevice.CHILDREN
    proxy,           \* whether HMGeneric._proxy is a proxy (TRUE) or None (FALSE)
    unreach,         \* HMGeneric._unreach of every entity
    paramsets,       \* HMGeneric._paramsets of every entity: name -> mapping
    eventcallbacks,  \* HMGeneric._eventcallbacks of every entity
    ret,             \* the last call: its arguments, what it returned or raised, what it called
    _PARAMSET_DESCRIPTIONS,  \* HMGeneric._PARAMSET_DESCRIPTIONS of every entity
    updating,        \* an updateParamset running in a thread of its own: where it is, its locals
    delivering       \* an event running in the server's thread: where it is, its locals

vars == <<CHILDREN, proxy, unreach, paramsets, eventcallbacks, ret,
         _PARAMSET_DESCRIPTIONS, updating, delivering>>

Entities == {Dev} \cup CHILDREN

\* HMGeneric._ADDRESS
ADDRESS(e) == <<"D001", e>>

\* A mapping with no key: {} in Python.
EmptyMap == [k \in {} |-> "None"]

\* Python truthiness of a value / of a mapping.
Truthy(v) == v \notin {"None", "False"}
TruthyMap(m) == DOMAIN m # {}
\* self._paramsets = {}
NoCache == [n \in {} |-> EmptyMap]

\* return True / return False
Bool(b) == IF b THEN "True" ELSE "False"

\* The blank record of a call; every action fills the fields it uses.
NoRet ==
    [op |-> "none", ent |-> Dev, cb |-> "None", bequeath |-> FALSE, channel |-> 0,
     interface_id |-> "", key |-> "", value |-> "None", data |-> EmptyMap, result |-> "None",
     raised |-> FALSE, fault |-> FALSE, calls |-> << >>, results |-> << >>,
     invoked |-> << >>]

\* No call is under way: the caller of the last one has taken its result.
Idle == ret = NoRet

\* self._PARAMSET_DESCRIPTIONS = {}
NoDescriptions == [n \in {} |-> "None"]
\* No updateParamset is running in a thread of its own.
NoUpdate ==
    [at |-> "idle", ent |-> Dev, paramset |-> "", returnset |-> EmptyMap, before |-> "None"]
\* No event is running in the server's thread.
NoDelivery ==
    [at |-> "idle", ent |-> Dev, interface_id |-> "", key |-> "", value |-> "None", i |-> 0,
     began |-> << >>, invoked |-> << >>]

\* ------------------------------------------------------- callback registration
\* hasattr(callback, '__call__')
Callable(callback) == callback \in Callbacks

\* The callbacks registered on the entities of S together.
RECURSIVE TotalLen(_, _)
TotalLen(cbs, S) ==
    IF S = {} THEN 0
    ELSE LET e == CHOOSE x \in S : TRUE
         IN Len(cbs[e]) + TotalLen(cbs, S \ {e})

\* self._eventcallbacks.append(callback) on one entity
AppendCallback(cbs, e, callback) == [cbs EXCEPT ![e] = Append(@, callback)]

\* Bequeath leaving its loop after the first child.
Bequeath_FirstChildOnly(cbs, callback) ==
    [e \in DOMAIN cbs |->
        IF e \in CHILDREN /\ \A c \in CHILDREN : e <= c THEN Append(cbs[e], callback) ELSE cbs[e]]
\* for channel, device in self.CHILDREN.items(): device._eventcallbacks.append(callback)
Bequeath(cbs, callback) ==
    [e \in DOMAIN cbs |-> IF e \in CHILDREN THEN Append(cbs[e], callback) ELSE cbs[e]]

\* OnChannel without the test that the channel is a key of CHILDREN.
OnChannel_NoKeyTest(bequeath, channel) == ~bequeath /\ channel > 0
\* elif not bequeath and channel > 0 and channel in self.CHILDREN
OnChannel(bequeath, channel) == ~bequeath /\ channel > 0 /\ channel \in CHILDREN

\* The if/elif of HMDevice.setEventCallback: [cbs, raised]; self.CHILDREN[channel]
\* raises KeyError for a channel that is no key.
RegisterOwn(cbs, callback, bequeath, channel) ==
    IF channel = 0 THEN [cbs |-> AppendCallback(cbs, Dev, callback), raised |-> FALSE]
    ELSE IF OnChannel(bequeath, channel)
         THEN IF channel \in CHILDREN
              THEN [cbs |-> AppendCallback(cbs, channel, callback), raised |-> FALSE]
              ELSE [cbs |-> cbs, raised |-> TRUE]
    ELSE [cbs |-> cbs, raised |-> FALSE]

\* if bequeath: the loop over self.CHILDREN
RegisterChildren(cbs, callback, bequeath) ==
    IF bequeath THEN Bequeath(cbs, callback) ELSE cbs

\* HMDevice.setEventCallback as a function of the callback lists: [cbs, raised].
DeviceRegistered(cbs, callback, bequeath, channel) ==
    IF Callable(callback)
    THEN LET own == RegisterOwn(cbs, callback, bequeath, channel)
         IN IF own.raised THEN own
            ELSE [cbs |-> RegisterChildren(own.cbs, callback, bequeath), raised |-> FALSE]
    ELSE [cbs |-> cbs, raised |-> FALSE]

\* HMChannel.setEventCallback as a function of the callback lists.
ChannelRegistered(cbs, c, callback) ==
    IF Callable(callback) THEN AppendCallback(cbs, c, callback) ELSE cbs

setEventCallback(callback, bequeath, channel) ==
    LET new == DeviceRegistered(eventcallbacks, callback, bequeath, channel)
    IN /\ Idle
       /\ TotalLen(new.cbs, Entities) <= MaxRegistered
       /\ eventcallbacks' = new.cbs
       /\ ret' = [NoRet EXCEPT !.op = "setEventCallback", !.cb = callback,
                               !.bequeath = bequeath, !.channel = channel,
                               !.raised = new.raised,
                               !.result = IF new.raised THEN "raise" ELSE "None"]
       /\ UNCHANGED <<CHILDREN, proxy, unreach, paramsets, _PARAMSET_DESCRIPTIONS, updating, delivering>>

Channel_setEventCallback(c, callback) ==
    LET new == ChannelRegistered(eventcallbacks, c, callback)
    IN /\ Idle
       /\ TotalLen(new, Entities) <= MaxRegistered
       /\ eventcallbacks' = new
       /\ ret' = [NoRet EXCEPT !.op = "Channel.setEventCallback", !.ent = c, !.cb = callback]
       /\ UNCHANGED <<CHILDREN, proxy, unreach, paramsets, _PARAMSET_DESCRIPTIONS, updating, delivering>>

\* ------------------------------------------------------------------- events
\* if key == PARAM_UNREACH: self._unreach = value
EventUnreach(old, key, value) == IF key = PARAM_UNREACH THEN value ELSE old

\* callback(self._ADDRESS, interface_id, key, value), seeing the flag `seen`;
\* `raises` tells whether this invocation raises.
Invocation(callback, e, interface_id, key, value, seen, raises) ==
    [callback |-> callback, address |-> ADDRESS(e), interface_id |-> interface_id,
     key |-> key, value |-> value, unreach |-> seen, raised |-> raises]

\* for callback in self._eventcallbacks: callback(...), from position i on.
\* An exception leaves the loop: no later callback is invoked.
RECURSIVE FanOut(_, _, _, _, _, _, _, _)
FanOut(list, i, raising, e, interface_id, key, value, seen) ==
    IF i > Len(list) THEN << >>
    ELSE LET inv == Invocation(list[i], e, interface_id, key, value, seen, i \in raising)
         IN IF i \in raising THEN <<inv>>
            ELSE <<inv>> \o FanOut(list, i + 1, raising, e, interface_id, key, value, seen)

\* HMGeneric.event; raising: the positions of the callbacks that raise on this event.
event(e, interface_id, key, value, raising) ==
    LET flag == EventUnreach(unreach[e], key, value)
        invoked == FanOut(eventcallbacks[e], 1, raising, e, interface_id, key, value, flag)
        escaped == invoked # << >> /\ invoked[Len(invoked)].raised
    IN /\ Idle
       /\ unreach' = [unreach EXCEPT ![e] = flag]
       /\ ret' = [NoRet EXCEPT !.op = "event", !.ent = e, !.interface_id = interface_id,
                               !.key = key, !.value = value,
                               !.invoked = invoked, !.raised = escaped,
                               !.result = IF escaped THEN "raise" ELSE "None"]
       /\ UNCHANGED <<CHILDREN, proxy, paramsets, eventcallbacks, _PARAMSET_DESCRIPTIONS, updating, delivering>>

\* ---------------------------------------------------------------- UNREACH
\* HMChannel.UNREACH
ChannelUNREACH(c) == IF Truthy(unreach[c]) THEN TRUE ELSE FALSE

\* for channel, device in self.CHILDREN.items(): if device.UNREACH: return True
RECURSIVE AnyChildUNREACH(_)
AnyChildUNREACH(S) ==
    IF S = {} THEN FALSE
    ELSE LET c == CHOOSE x \in S : TRUE
         IN IF ChannelUNREACH(c) THEN TRUE ELSE AnyChildUNREACH(S \ {c})

\* HMDevice.UNREACH looking at the device's own flag alone.
DeviceUNREACH_OwnFlagOnly == IF Truthy(unreach[Dev]) THEN TRUE ELSE FALSE
\* HMDevice.UNREACH
DeviceUNREACH ==
    IF Truthy(unreach[Dev]) THEN TRUE ELSE AnyChildUNREACH(CHILDREN)

UNREACH ==
    /\ Idle
    /\ ret' = [NoRet EXCEPT !.op = "UNREACH", !.result = Bool(DeviceUNREACH)]
    /\ UNCHANGED <<CHILDREN, proxy, unreach, paramsets, eventcallbacks, _PARAMSET_DESCRIPTIONS, updating, delivering>>


\* ---------------------------------------------------------------- paramsets
ParamsetNames == {"MASTER", PARAMSET_VALUES}
\* paramset arguments of the calls: a declared or undeclared name, or the empty string.
ParamsetArgs == ParamsetNames \cup {""}

\* HMGeneric._PARAMSETS, device_description['PARAMSETS'] in the order of the list:
\* a device declares MASTER, a channel MASTER and VALUES.
_PARAMSETS(e) == IF e = Dev THEN <<"MASTER">> ELSE <<"MASTER", PARAMSET_VALUES>>
Declared(e) == {_PARAMSETS(e)[i] : i \in 1..Len(_PARAMSETS(e))}

\* Mappings the proxy's getParamset returns: UNREACH is a parameter of VALUES.
ProxyMappings(paramset) ==
    IF paramset = PARAMSET_VALUES
    THEN {EmptyMap, PARAM_UNREACH :> "True", "STATE" :> "True"}
    ELSE {EmptyMap, "CYCLIC_INFO_MSG" :> "True"}
\* An answer of the proxy: a transport fault (ok = FALSE) or a mapping.
Fault == [ok |-> FALSE, map |-> EmptyMap]
\* The answers to getParamset(address of e, paramset): a fault (always the answer for
\* a paramset the entity does not have) or one of the mappings.
Responses(e, paramset) ==
    IF paramset \in Declared(e)
    THEN {Fault} \cup {[ok |-> TRUE, map |-> m] : m \in ProxyMappings(paramset)}
    ELSE {Fault}
\* The answers to one getParamset for each declared paramset.
AllResponses(e) ==
    {[n \in ParamsetNames |-> IF n = PARAMSET_VALUES THEN v ELSE m] :
        v \in Responses(e, PARAMSET_VALUES), m \in Responses(e, "MASTER")}
\* data arguments of putParamset
PutData == {EmptyMap, "STATE" :> "False"}

\* dict.get(key): None when the key is missing
MapGet(m, k) == IF k \in DOMAIN m THEN m[k] ELSE "None"
\* self.PARAMSETS.get(name), None written as the empty mapping (both are falsy)
CacheGet(cache, name) == IF name \in DOMAIN cache THEN cache[name] ELSE EmptyMap

\* A call of the proxy as it is logged.
Call(method, e, paramset) == [method |-> method, address |-> ADDRESS(e), paramset |-> paramset]

\* Store as dict.update: the fetched entries laid over the cached ones.
Store_Merge(cache, paramset, returnset) ==
    [n \in DOMAIN cache \cup {paramset} |->
        IF n = paramset
        THEN [k \in DOMAIN CacheGet(cache, n) \cup DOMAIN returnset |->
                 IF k \in DOMAIN returnset THEN returnset[k] ELSE cache[n][k]]
        ELSE cache[n]]
\* self._paramsets[paramset] = returnset
Store(cache, paramset, returnset) ==
    [n \in DOMAIN cache \cup {paramset} |-> IF n = paramset THEN returnset ELSE cache[n]]

\* if self.PARAMSETS: if self.PARAMSETS.get(PARAMSET_VALUES):
\*     self._unreach = self.PARAMSETS.get(PARAMSET_VALUES).get(PARAM_UNREACH)
Rederive(cache, old) ==
    IF DOMAIN cache # {} /\ TruthyMap(CacheGet(cache, PARAMSET_VALUES))
    THEN MapGet(CacheGet(cache, PARAMSET_VALUES), PARAM_UNREACH)
    ELSE old

\* What one updateParamset(paramset) returned, whether its proxy call raised a
\* transport fault, and the returnset it stored.
Refreshed(paramset, ok, fault, returnset) ==
    [paramset |-> paramset, ok |-> ok, fault |-> fault, map |-> returnset]

\* HMGeneric.updateParamset on the fields of one entity,
\* st = [cache, unreach, calls, results, ok]; resp is the proxy's answer if it is asked.
UpdateOne(st, e, paramset, resp) ==
    IF paramset # "" /\ proxy
    THEN LET called == Append(st.calls, Call("getParamset", e, paramset))
         IN IF resp.ok /\ TruthyMap(resp.map)
            THEN LET cache == Store(st.cache, paramset, resp.map)
                 IN [cache |-> cache, unreach |-> Rederive(cache, st.unreach),
                     calls |-> called,
                     results |-> Append(st.results, Refreshed(paramset, TRUE, FALSE, resp.map)),
                     ok |-> TRUE]
            ELSE [st EXCEPT !.calls = called, !.ok = FALSE,
                            !.results = Append(@, Refreshed(paramset, FALSE, ~resp.ok, EmptyMap))]
    ELSE [st EXCEPT !.ok = FALSE,
                    !.results = Append(@, Refreshed(paramset, FALSE, FALSE, EmptyMap))]

\* UpdateAll leaving its loop at the first refresh that fails.
RECURSIVE UpdateAll_StopsAtFailure(_, _, _, _)
UpdateAll_StopsAtFailure(st, e, i, resps) ==
    IF i > Len(_PARAMSETS(e)) THEN st
    ELSE LET one == UpdateOne(st, e, _PARAMSETS(e)[i], resps[_PARAMSETS(e)[i]])
         IN IF one.ok THEN UpdateAll_StopsAtFailure(one, e, i + 1, resps) ELSE one
\* for ps in self._PARAMSETS: self.updateParamset(ps), from position i on;
\* resps[ps] is the proxy's answer for ps.
RECURSIVE UpdateAll(_, _, _, _)
UpdateAll(st, e, i, resps) ==
    IF i > Len(_PARAMSETS(e)) THEN st
    ELSE UpdateAll(UpdateOne(st, e, _PARAMSETS(e)[i], resps[_PARAMSETS(e)[i]]), e, i + 1, resps)

\* The fields of entity e before a call.
Fields(e) ==
    [cache |-> paramsets[e], unreach |-> unreach[e], calls |-> << >>, results |-> << >>,
     ok |-> TRUE]

updateParamset(e, paramset, resp) ==
    LET st == UpdateOne(Fields(e), e, paramset, resp)
    IN /\ Idle
       /\ paramsets' = [paramsets EXCEPT ![e] = st.cache]
       /\ unreach' = [unreach EXCEPT ![e] = st.unreach]
       /\ ret' = [NoRet EXCEPT !.op = "updateParamset", !.ent = e, !.key = paramset,
                               !.data = IF st.calls # << >> THEN resp.map ELSE EmptyMap,
                               !.fault = st.calls # << >> /\ ~resp.ok,
                               !.calls = st.calls, !.results = st.results,
                               !.result = Bool(st.ok)]
       /\ UNCHANGED <<CHILDREN, proxy, eventcallbacks, _PARAMSET_DESCRIPTIONS, updating, delivering>>

updateParamsets(e, resps) ==
    LET st == UpdateAll(Fields(e), e, 1, resps)
    IN /\ Idle
       /\ paramsets' = [paramsets EXCEPT ![e] = st.cache]
       /\ unreach' = [unreach EXCEPT ![e] = st.unreach]
       /\ ret' = [NoRet EXCEPT !.op = "updateParamsets", !.ent = e,
                               !.fault = \E i \in 1..Len(st.results) : st.results[i].fault,
                               !.calls = st.calls, !.results = st.results,
                               !.result = "True"]
       /\ UNCHANGED <<CHILDREN, proxy, eventcallbacks, _PARAMSET_DESCRIPTIONS, updating, delivering>>

\* PutValid without the test of data.
PutValid_NameOnly(e, paramset, data) == paramset \in Declared(e)
\* if paramset in self._PARAMSETS and data
PutValid(e, paramset, data) == paramset \in Declared(e) /\ TruthyMap(data)

\* PutOne laying data over the cached paramset once the proxy has taken it.
PutOne_WritesData(st, e, paramset, data, putOk, resps) ==
    IF PutValid(e, paramset, data)
    THEN IF ~proxy THEN [st EXCEPT !.ok = FALSE]
         ELSE LET put == [st EXCEPT !.calls = Append(@, Call("putParamset", e, paramset))]
                  written == [put EXCEPT !.cache = Store_Merge(@, paramset, data)]
              IN IF putOk THEN [UpdateAll(written, e, 1, resps) EXCEPT !.ok = TRUE]
                 ELSE [put EXCEPT !.ok = FALSE]
    ELSE [st EXCEPT !.ok = FALSE]
\* HMGeneric.putParamset on the fields of one entity; putOk: the proxy's putParamset
\* returns (TRUE) or raises a transport fault (FALSE).
PutOne(st, e, paramset, data, putOk, resps) ==
    IF PutValid(e, paramset, data)
    THEN IF ~proxy THEN [st EXCEPT !.ok = FALSE]
         ELSE LET put == [st EXCEPT !.calls = Append(@, Call("putParamset", e, paramset))]
              IN IF putOk THEN [UpdateAll(put, e, 1, resps) EXCEPT !.ok = TRUE]
                 ELSE [put EXCEPT !.ok = FALSE]
    ELSE [st EXCEPT !.ok = FALSE]

putParamset(e, paramset, data, putOk, resps) ==
    LET st == PutOne(Fields(e), e, paramset, data, putOk, resps)
    IN /\ Idle
       /\ paramsets' = [paramsets EXCEPT ![e] = st.cache]
       /\ unreach' = [unreach EXCEPT ![e] = st.unreach]
       /\ ret' = [NoRet EXCEPT !.op = "putParamset", !.ent = e, !.key = paramset,
                               !.data = data, !.fault = proxy /\ PutValid(e, paramset, data) /\ ~putOk,
                               !.calls = st.calls, !.results = st.results,
                               !.result = Bool(st.ok)]
       /\ UNCHANGED <<CHILDREN, proxy, eventcallbacks, _PARAMSET_DESCRIPTIONS, updating, delivering>>

\* ------------------------------------------------------------------- values
\* keys and values of setValue and getValue
ValueKeys == {"STATE", "LEVEL"}
Values == {"True", "0.5"}
\* A setValue or getValue of the proxy as it is logged.
ValueCall(method, e, key, value) ==
    [method |-> method, address |-> ADDRESS(e), key |-> key, value |-> value]

\* HMGeneric.setValue on entity e; sent: the proxy's setValue returns (TRUE) or
\* raises a transport fault (FALSE).  Without a proxy the attribute access raises.
SetOne(e, key, value, sent) ==
    IF proxy
    THEN [calls |-> <<ValueCall("setValue", e, key, value)>>, fault |-> ~sent,
          result |-> IF sent THEN "True" ELSE "False"]
    ELSE [calls |-> << >>, fault |-> FALSE, result |-> "False"]

setValue(e, key, value, sent) ==
    LET out == SetOne(e, key, value, sent)
    IN /\ Idle
       /\ ret' = [NoRet EXCEPT !.op = "setValue", !.ent = e, !.key = key, !.value = value,
                               !.fault = out.fault, !.calls = out.calls, !.result = out.result]
       /\ UNCHANGED <<CHILDREN, proxy, unreach, paramsets, eventcallbacks,
                      _PARAMSET_DESCRIPTIONS, updating, delivering>>

\* An answer of the proxy's getValue: a transport fault (ok = FALSE) or a value.
ValueFault == [ok |-> FALSE, value |-> "None"]
ValueAnswers == {ValueFault} \cup {[ok |-> TRUE, value |-> v] : v \in Values}

\* HMGeneric.getValue on entity e: what the proxy returned, False if it raised.
GetOne(e, key, answer) ==
    IF proxy
    THEN [calls |-> <<ValueCall("getValue", e, key, "None")>>, fault |-> ~answer.ok,
          result |-> IF answer.ok THEN answer.value ELSE "False"]
    ELSE [calls |-> << >>, fault |-> FALSE, result |-> "False"]

getValue(e, key, answer) ==
    LET out == GetOne(e, key, answer)
    IN /\ Idle
       /\ ret' = [NoRet EXCEPT !.op = "getValue", !.ent = e, !.key = key,
                               !.fault = out.fault, !.calls = out.calls, !.result = out.result]
       /\ UNCHANGED <<CHILDREN, proxy, unreach, paramsets, eventcallbacks,
                      _PARAMSET_DESCRIPTIONS, updating, delivering>>

\* ------------------------------------------------------------- descriptions
\* The description the proxy's getParamsetDescription returns.
Descriptions == {"description"}
DescriptionFault == [ok |-> FALSE, description |-> "None"]
\* The answers to getParamsetDescription(address of e, paramset): a fault (always the
\* answer for a paramset the entity does not have) or a description.
DescriptionAnswers(e, paramset) ==
    IF paramset \in Declared(e)
    THEN {DescriptionFault} \cup {[ok |-> TRUE, description |-> d] : d \in Descriptions}
    ELSE {DescriptionFault}

\* The except branch assigning None to the entry.
Describe_ClearsOnFault(known, paramset, answer) ==
    IF proxy /\ answer.ok
    THEN [n \in DOMAIN known \cup {paramset} |->
             IF n = paramset THEN answer.description ELSE known[n]]
    ELSE [n \in DOMAIN known \cup {paramset} |-> IF n = paramset THEN "None" ELSE known[n]]
\* self._PARAMSET_DESCRIPTIONS[paramset] = self._proxy.getParamsetDescription(...):
\* the assignment happens only if the call returned.
Describe(known, paramset, answer) ==
    IF proxy /\ answer.ok
    THEN [n \in DOMAIN known \cup {paramset} |->
             IF n = paramset THEN answer.description ELSE known[n]]
    ELSE known

\* HMGeneric.getParamsetDescription on entity e: None when the call returned,
\* False when it raised.
getParamsetDescription(e, paramset, answer) ==
    /\ Idle
    /\ _PARAMSET_DESCRIPTIONS' =
           [_PARAMSET_DESCRIPTIONS EXCEPT ![e] = Describe(@, paramset, answer)]
    /\ ret' = [NoRet EXCEPT !.op = "getParamsetDescription", !.ent = e, !.key = paramset,
                            !.fault = proxy /\ ~answer.ok,
                            !.calls = IF proxy
                                      THEN <<Call("getParamsetDescription", e, paramset)>>
                                      ELSE << >>,
                            !.result = IF proxy /\ answer.ok THEN "None" ELSE "False"]
    /\ UNCHANGED <<CHILDREN, proxy, unreach, paramsets, eventcallbacks, updating, delivering>>

\* -------------------------------------------------------------------- nodes
\* HMDevice.ELEMENT
ELEMENT == 1
\* Where a node lives: on the device itself (None), on the channel the caller
\* names ('c'), or on a channel of its own (an integer).
Self == [kind |-> "None", n |-> 0]
Dynamic == [kind |-> "c", n |-> 0]
Fixed(n) == [kind |-> "int", n |-> n]

\* The node tables: HMDevice's own entry of _ATTRIBUTENODE, and entries as the
\* device types put them into the other three.
_ATTRIBUTENODE == "RSSI_DEVICE" :> Self
_SENSORNODE == "TEMPERATURE" :> Dynamic
_BINARYNODE == "STATE" :> Fixed(1)
_WRITENODE == ("LEVEL" :> Dynamic) @@ ("STATE" :> Fixed(2))
\* name and channel arguments of the accessors
NodeNames == {"RSSI_DEVICE", "TEMPERATURE", "STATE", "LEVEL", "UNKNOWN"}
NodeChannels == (-1)..MaxChild

\* The names the module binds, and the parameters of _getNodeData and writeNodeData.
ModuleNames ==
    {"logging", "LOG", "PARAM_OPERATION_READ", "PARAM_OPERATION_WRITE",
     "PARAM_OPERATION_EVENT", "PARAM_UNREACH", "PARAMSET_VALUES",
     "HMGeneric", "HMChannel", "HMDevice"}
NodeParameters == {"self", "name", "data", "channel"}
\* Reading a name that is neither a local, a global nor a builtin raises NameError.
NameError(name) == name \notin NodeParameters \cup ModuleNames

\* HMDevice._getNodeData: its first statement, `if name in nodes:`, reads `nodes`,
\* which nothing binds; the NameError leaves the method before it looks at data,
\* at a child or at the proxy.
_getNodeData(accessor, name, data, channel) ==
    /\ Idle
    /\ NameError("nodes")
    /\ ret' = [NoRet EXCEPT !.op = accessor, !.key = name, !.channel = channel,
                            !.raised = TRUE, !.result = "raise"]
    /\ UNCHANGED <<CHILDREN, proxy, unreach, paramsets, eventcallbacks,
                   _PARAMSET_DESCRIPTIONS, updating, delivering>>

getAttributeData(name, channel) == _getNodeData("getAttributeData", name, _ATTRIBUTENODE, channel)
getBinaryData(name, channel) == _getNodeData("getBinaryData", name, _BINARYNODE, channel)
getSensorData(name, channel) == _getNodeData("getSensorData", name, _SENSORNODE, channel)
getWriteData(name, channel) == _getNodeData("getWriteData", name, _WRITENODE, channel)

\* HMDevice.writeNodeData: the same first statement, the same NameError.
writeNodeData(name, data, channel) ==
    /\ Idle
    /\ NameError("nodes")
    /\ ret' = [NoRet EXCEPT !.op = "writeNodeData", !.key = name, !.value = data,
                            !.channel = channel, !.raised = TRUE, !.result = "raise"]
    /\ UNCHANGED <<CHILDREN, proxy, unreach, paramsets, eventcallbacks,
                   _PARAMSET_DESCRIPTIONS, updating, delivering>>

\* ------------------------------------------------------------------ threads
\* The methods take no lock.  A thread is switched between two statements, so a
\* method running beside the others is one action per statement that reads or
\* writes a field, its locals kept in updating (updateParamset) or in delivering
\* (event).

\* updateParamset, lines 103-105: returnset = self._proxy.getParamset(...).
\* Without a name, without a proxy or on a fault the method returns False at once.
updateParamset_getParamset(e, paramset, resp) ==
    /\ updating.at = "idle"
    /\ updating' = IF paramset # "" /\ proxy /\ resp.ok
                   THEN [at |-> "fetched", ent |-> e, paramset |-> paramset,
                         returnset |-> resp.map, before |-> unreach[e]]
                   ELSE NoUpdate
    /\ UNCHANGED <<CHILDREN, proxy, unreach, paramsets, eventcallbacks, ret,
                   _PARAMSET_DESCRIPTIONS, delivering>>

\* updateParamset, lines 106-107: if returnset: self._paramsets[paramset] = returnset;
\* an empty returnset returns False.
updateParamset_store ==
    /\ updating.at = "fetched"
    /\ IF TruthyMap(updating.returnset)
       THEN /\ paramsets' = [paramsets EXCEPT ![updating.ent] =
                                 Store(@, updating.paramset, updating.returnset)]
            /\ updating' = [updating EXCEPT !.at = "stored"]
       ELSE /\ updating' = NoUpdate
            /\ UNCHANGED paramsets
    /\ UNCHANGED <<CHILDREN, proxy, unreach, eventcallbacks, ret,
                   _PARAMSET_DESCRIPTIONS, delivering>>

\* updateParamset, lines 108-111: self._unreach = self.PARAMSETS.get(VALUES).get(UNREACH)
\* if the cache holds a VALUES paramset; return True.
updateParamset_unreach ==
    /\ updating.at = "stored"
    /\ unreach' = [unreach EXCEPT ![updating.ent] = Rederive(paramsets[updating.ent], @)]
    /\ updating' = NoUpdate
    /\ UNCHANGED <<CHILDREN, proxy, paramsets, eventcallbacks, ret,
                   _PARAMSET_DESCRIPTIONS, delivering>>

\* event, lines 81-83: the flag is set and the loop over self._eventcallbacks begins.
\* began keeps the list of that moment.
event_begin(e, interface_id, key, value) ==
    /\ delivering.at = "idle"
    /\ unreach' = [unreach EXCEPT ![e] = EventUnreach(@, key, value)]
    /\ delivering' = [at |-> "loop", ent |-> e, interface_id |-> interface_id, key |-> key,
                      value |-> value, i |-> 1, began |-> eventcallbacks[e],
                      invoked |-> << >>]
    /\ UNCHANGED <<CHILDREN, proxy, paramsets, eventcallbacks, ret,
                   _PARAMSET_DESCRIPTIONS, updating>>

\* What a callback does when it is invoked: it returns, it raises, or it registers a
\* callback on the entity of the event and returns.
CallbackRuns ==
    {[does |-> d, callback |-> "None"] : d \in {"returns", "raises"}}
        \cup {[does |-> "registers", callback |-> callback] : callback \in Callbacks}

\* event, lines 83-85: the list iterator looks at the list as it is now; position i
\* exists: the callback there is invoked; it does not: the loop and the method end.
event_next(runs) ==
    LET e == delivering.ent
        list == eventcallbacks[e]
    IN /\ delivering.at = "loop"
       /\ IF delivering.i <= Len(list)
          THEN /\ delivering' =
                     [delivering EXCEPT
                        !.at = IF runs.does = "raises" THEN "raised" ELSE "loop",
                        !.i = @ + 1,
                        !.invoked = Append(@, Invocation(list[delivering.i], e,
                                                         delivering.interface_id,
                                                         delivering.key, delivering.value,
                                                         unreach[e], runs.does = "raises"))]
               /\ IF runs.does \in {"returns", "raises"}
                  THEN UNCHANGED eventcallbacks
                  ELSE /\ TotalLen(eventcallbacks, Entities) < MaxRegistered
                       /\ eventcallbacks' = ChannelRegistered(eventcallbacks, e, runs.callback)
          ELSE /\ runs.does = "returns"
               /\ delivering' = [delivering EXCEPT !.at = "done"]
               /\ UNCHANGED eventcallbacks
       /\ UNCHANGED <<CHILDREN, proxy, unreach, paramsets, ret,
                      _PARAMSET_DESCRIPTIONS, updating>>

\* The server's thread is back from event, with None or with the exception.
event_return ==
    /\ delivering.at \in {"done", "raised"}
    /\ delivering' = NoDelivery
    /\ UNCHANGED <<CHILDREN, proxy, unreach, paramsets, eventcallbacks, ret,
                   _PARAMSET_DESCRIPTIONS, updating>>

\* ---------------------------------------------------------------- behaviours
\* After construction: no cached paramset, no callback, unreach None.
Init ==
    /\ CHILDREN \in SUBSET ChildIdx
    /\ proxy \in BOOLEAN
    /\ unreach = [e \in Entities |-> "None"]
    /\ paramsets = [e \in Entities |-> NoCache]
    /\ eventcallbacks = [e \in Entities |-> << >>]
    /\ ret = NoRet
    /\ _PARAMSET_DESCRIPTIONS = [e \in Entities |-> NoDescriptions]
    /\ updating = NoUpdate
    /\ delivering = NoDelivery

\* The same with a proxy, for the behaviours that never call it.
InitReg ==
    /\ CHILDREN \in SUBSET ChildIdx
    /\ proxy = TRUE
    /\ unreach = [e \in Entities |-> "None"]
    /\ paramsets = [e \in Entities |-> NoCache]
    /\ eventcallbacks = [e \in Entities |-> << >>]
    /\ ret = NoRet
    /\ _PARAMSET_DESCRIPTIONS = [e \in Entities |-> NoDescriptions]
    /\ updating = NoUpdate
    /\ delivering = NoDelivery

\* A device of few channels with a proxy, for the behaviours that run callbacks.
InitEv ==
    /\ CHILDREN \in SUBSET (1..MaxChildFew)
    /\ proxy = TRUE
    /\ unreach = [e \in Entities |-> "None"]
    /\ paramsets = [e \in Entities |-> NoCache]
    /\ eventcallbacks = [e \in Entities |-> << >>]
    /\ ret = NoRet
    /\ _PARAMSET_DESCRIPTIONS = [e \in Entities |-> NoDescriptions]
    /\ updating = NoUpdate
    /\ delivering = NoDelivery

\* A device of few channels, for the behaviours that push paramsets.
InitPs ==
    /\ CHILDREN \in SUBSET (1..MaxChildFew)
    /\ proxy \in BOOLEAN
    /\ unreach = [e \in Entities |-> "None"]
    /\ paramsets = [e \in Entities |-> NoCache]
    /\ eventcallbacks = [e \in Entities |-> << >>]
    /\ ret = NoRet
    /\ _PARAMSET_DESCRIPTIONS = [e \in Entities |-> NoDescriptions]
    /\ updating = NoUpdate
    /\ delivering = NoDelivery

\* A device of one channel, for the behaviours of all the methods together.
InitOne ==
    /\ CHILDREN = {1}
    /\ proxy \in BOOLEAN
    /\ unreach = [e \in Entities |-> "None"]
    /\ paramsets = [e \in Entities |-> NoCache]
    /\ eventcallbacks = [e \in Entities |-> << >>]
    /\ ret = NoRet
    /\ _PARAMSET_DESCRIPTIONS = [e \in Entities |-> NoDescriptions]
    /\ updating = NoUpdate
    /\ delivering = NoDelivery

\* The caller takes the result of the call.
Return ==
    /\ ~Idle
    /\ ret' = NoRet
    /\ UNCHANGED <<CHILDREN, proxy, unreach, paramsets, eventcallbacks, _PARAMSET_DESCRIPTIONS, updating, delivering>>

Register ==
    \/ \E callback \in CallbackArgs, bequeath \in BOOLEAN, channel \in ChannelArgs :
          setEventCallback(callback, bequeath, channel)
    \/ \E c \in CHILDREN, callback \in CallbackArgs : Channel_setEventCallback(c, callback)

Deliver ==
    \E e \in Entities, interface_id \in InterfaceIds, kv \in EventInputs :
        \E raising \in SUBSET (1..Len(eventcallbacks[e])) :
            event(e, interface_id, kv[1], kv[2], raising)

\* The proxy is asked only for a non-empty name; the answer matters only then.
RefreshOne ==
    \E e \in Entities, paramset \in ParamsetArgs :
        \E resp \in (IF paramset = "" THEN {Fault} ELSE Responses(e, paramset)) :
            updateParamset(e, paramset, resp)

RefreshAll ==
    \E e \in Entities : \E resps \in AllResponses(e) : updateParamsets(e, resps)

\* The proxy is asked only with valid arguments, and for the paramsets only after
\* its putParamset returned.
Push ==
    \E e \in Entities, paramset \in ParamsetArgs, data \in PutData :
        \E putOk \in (IF PutValid(e, paramset, data) THEN BOOLEAN ELSE {FALSE}) :
            \E resps \in (IF putOk THEN AllResponses(e) ELSE {[n \in ParamsetNames |-> Fault]}) :
                putParamset(e, paramset, data, putOk, resps)

SetValue ==
    \E e \in Entities, key \in ValueKeys, value \in Values :
        \E sent \in (IF proxy THEN BOOLEAN ELSE {FALSE}) : setValue(e, key, value, sent)

GetValue ==
    \E e \in Entities, key \in ValueKeys :
        \E answer \in (IF proxy THEN ValueAnswers ELSE {ValueFault}) : getValue(e, key, answer)

DescribeParamset ==
    \E e \in Entities, paramset \in ParamsetArgs :
        \E answer \in (IF proxy THEN DescriptionAnswers(e, paramset) ELSE {DescriptionFault}) :
            getParamsetDescription(e, paramset, answer)

ReadNode ==
    \E name \in NodeNames, channel \in NodeChannels :
        \/ getAttributeData(name, channel)
        \/ getBinaryData(name, channel)
        \/ getSensorData(name, channel)
        \/ getWriteData(name, channel)

WriteNode ==
    \E name \in NodeNames, data \in Values, channel \in NodeChannels :
        writeNodeData(name, data, channel)

\* Everything the server and the application may call, one call after the other.
Next ==
    \/ Register \/ Deliver \/ RefreshOne \/ RefreshAll \/ Push \/ UNREACH
    \/ SetValue \/ GetValue \/ DescribeParamset \/ ReadNode \/ WriteNode \/ Return
Spec == Init /\ [][Next]_vars

\* Callback registration alone.
NextReg == Register \/ Return
SpecReg == InitReg /\ [][NextReg]_vars

\* Callback registration and event delivery.
NextEv == Register \/ Deliver \/ Return
SpecEv == InitEv /\ [][NextEv]_vars

\* Event delivery, the refresh of one paramset and the reads of UNREACH.
NextRefresh == Deliver \/ RefreshOne \/ UNREACH \/ Return
SpecRefresh == Init /\ [][NextRefresh]_vars

\* Event delivery, paramset refresh and push.
NextPs == Deliver \/ RefreshOne \/ RefreshAll \/ Push \/ Return
SpecPs == InitPs /\ [][NextPs]_vars

\* -------------------------------------------------------------------- claims
\* The last call was op and the step is that call.
Called(op) == ret'.op = op

\* C1: whenever HMDevice.UNREACH is read it returns True if and only if the device's
\* own flag is True or the flag of at least one child is True (None counts as not
\* True), whatever events and refreshes came before the read.
C1_DeviceUnreachIsOr ==
    ret.op = "UNREACH" =>
        ret.result = Bool(unreach[Dev] = "True" \/ \E c \in CHILDREN : unreach[c] = "True")
\* A read that returns True for a reachable device with two children, one of them
\* unreachable and the other reachable.
C1_Witness ==
    /\ ret.op = "UNREACH" /\ ret.result = "True"
    /\ unreach[Dev] # "True"
    /\ Cardinality(CHILDREN) = 2
    /\ \E c, d \in CHILDREN : unreach[c] = "True" /\ unreach[d] = "False"

\* C2: setEventCallback(cb, bequeath=True, channel=0) with a callable cb appends cb
\* once to the device's list and once to the list of each of the N children, N + 1
\* registrations in all.
C2_BequeathRegistersEverywhere ==
    [][(Called("setEventCallback") /\ Callable(ret'.cb) /\ ret'.bequeath /\ ret'.channel = 0)
        => /\ \A e \in Entities : eventcallbacks'[e] = Append(eventcallbacks[e], ret'.cb)
           /\ TotalLen(eventcallbacks', Entities)
                = TotalLen(eventcallbacks, Entities) + Cardinality(CHILDREN) + 1]_vars
\* A bequeathing registration on a device with two children, one list of which held a
\* callback before.
C2_Witness ==
    /\ ret.op = "setEventCallback" /\ Callable(ret.cb) /\ ret.bequeath /\ ret.channel = 0
    /\ Cardinality(CHILDREN) = 2
    /\ \A e \in Entities : eventcallbacks[e] # << >>
                           /\ eventcallbacks[e][Len(eventcallbacks[e])] = ret.cb
    /\ \E e \in Entities : Len(eventcallbacks[e]) = 2

\* C3: for every channel argument, setEventCallback with bequeath=True and a callable
\* cb appends cb to the device's own list and to the list of every child.
C3_BequeathWhateverChannel ==
    [][(Called("setEventCallback") /\ Callable(ret'.cb) /\ ret'.bequeath)
        => \A e \in Entities : eventcallbacks'[e] = Append(eventcallbacks[e], ret'.cb)]_vars

\* C4: setEventCallback(cb, bequeath=False, channel=k) with k > 0 and a callable cb
\* appends cb to the list of child k and changes no other list; when the device has no
\* child k it returns without an error and changes no list.
C4_OnlyTheNamedChannel ==
    [][(Called("setEventCallback") /\ Callable(ret'.cb) /\ ~ret'.bequeath /\ ret'.channel > 0)
        => /\ ~ret'.raised
           /\ eventcallbacks' =
                IF ret'.channel \in CHILDREN
                THEN [eventcallbacks EXCEPT ![ret'.channel] = Append(@, ret'.cb)]
                ELSE eventcallbacks]_vars
\* A registration on child 2 alone of a device whose own list and whose child 1
\* hold callbacks.
C4_Witness ==
    /\ ret.op = "setEventCallback" /\ Callable(ret.cb) /\ ~ret.bequeath /\ ret.channel = 2
    /\ CHILDREN = {1, 2}
    /\ eventcallbacks[2] = <<ret.cb>>
    /\ eventcallbacks[Dev] # << >> /\ eventcallbacks[1] # << >>
    /\ ret.cb \notin {eventcallbacks[Dev][1], eventcallbacks[1][1]}

\* C5: event(interface_id, key, value) sets the flag to value when key is UNREACH,
\* before any callback runs, and leaves it alone for any other key; it then invokes
\* every callback of the entity's list once, in the order of the list, each with
\* (address, interface_id, key, value).
C5_EventDelivery ==
    [][Called("event") =>
        LET e == ret'.ent
            list == eventcallbacks[e]
        IN /\ unreach'[e] = IF ret'.key = PARAM_UNREACH THEN ret'.value ELSE unreach[e]
           /\ Len(ret'.invoked) = Len(list)
           /\ \A i \in 1..Len(ret'.invoked) :
                 /\ ret'.invoked[i].callback = list[i]
                 /\ ret'.invoked[i].address = ADDRESS(e)
                 /\ ret'.invoked[i].interface_id = ret'.interface_id
                 /\ ret'.invoked[i].key = ret'.key
                 /\ ret'.invoked[i].value = ret'.value
                 /\ ret'.invoked[i].unreach = unreach'[e]]_vars

\* C6: when a callback raises during an event, every callback after it in the list is
\* still invoked and the exception does not leave event.
C6_FailingCallbackIsolated ==
    (ret.op = "event" /\ \E i \in 1..Len(ret.invoked) : ret.invoked[i].raised)
        => /\ Len(ret.invoked) = Len(eventcallbacks[ret.ent])
           /\ ~ret.raised

\* C7: updateParamset(name) returns True exactly when the proxy was asked and answered
\* with a non-empty mapping, and then the cached mapping of that name is that mapping
\* and no other cached paramset changed; when it returns False (empty name, no proxy,
\* a fault of the proxy, an empty answer) no cached paramset and no flag changed.
C7_RefreshReplacesOrLeaves ==
    [][Called("updateParamset") =>
        LET e == ret'.ent
            name == ret'.key
        IN IF ret'.result = "True"
           THEN /\ name # "" /\ proxy /\ ~ret'.fault /\ TruthyMap(ret'.data)
                /\ DOMAIN paramsets'[e] = DOMAIN paramsets[e] \cup {name}
                /\ paramsets'[e][name] = ret'.data
                /\ \A n \in DOMAIN paramsets[e] \ {name} : paramsets'[e][n] = paramsets[e][n]
                /\ \A o \in Entities \ {e} : paramsets'[o] = paramsets[o]
           ELSE /\ name = "" \/ ~proxy \/ ret'.fault \/ ~TruthyMap(ret'.data)
                /\ paramsets' = paramsets
                /\ unreach' = unreach]_vars
\* A refresh of VALUES that succeeded on a channel whose MASTER is cached too.
C7_Witness ==
    /\ ret.op = "updateParamset" /\ ret.result = "True" /\ ret.key = PARAMSET_VALUES
    /\ ret.ent \in CHILDREN
    /\ DOMAIN paramsets[ret.ent] = ParamsetNames
    /\ paramsets[ret.ent][PARAMSET_VALUES] = ret.data
    /\ DOMAIN ret.data = {"STATE"}

\* C8: updateParamset changes the flag only when it refreshed VALUES, and then to the
\* UNREACH entry of the mapping it fetched; a refresh of any other paramset leaves the
\* flag as it is.
C8_OnlyValuesRederives ==
    [][Called("updateParamset") =>
        LET e == ret'.ent
        IN unreach'[e] = IF ret'.result = "True" /\ ret'.key = PARAMSET_VALUES
                         THEN MapGet(ret'.data, PARAM_UNREACH)
                         ELSE unreach[e]]_vars

\* C9: putParamset(name, data) calls the proxy only when name is declared by the entity
\* and data is not empty; otherwise it returns False, calls neither putParamset nor
\* getParamset and changes no cached paramset and no flag.
C9_PushValidatesFirst ==
    [][Called("putParamset") =>
        LET valid == ret'.key \in Declared(ret'.ent) /\ DOMAIN ret'.data # {}
        IN /\ ret'.calls # << >> => valid
           /\ ~valid => /\ ret'.result = "False"
                        /\ ret'.calls = << >>
                        /\ paramsets' = paramsets
                        /\ unreach' = unreach]_vars
\* A push of data to VALUES, which the device does not declare, with a proxy and with
\* a cached paramset.
C9_Witness ==
    /\ ret.op = "putParamset" /\ ret.ent = Dev /\ ret.key = PARAMSET_VALUES
    /\ DOMAIN ret.data # {}
    /\ proxy
    /\ ret.result = "False" /\ ret.calls = << >>
    /\ paramsets[Dev] # NoCache

\* C10: when putParamset returns True the first call of the proxy was its putParamset,
\* the only one, and after it getParamset was called for every paramset the entity
\* declares, all before the return.
C10_PushThenRefreshAll ==
    (ret.op = "putParamset" /\ ret.result = "True")
        => /\ ret.calls # << >>
           /\ ret.calls[1] = Call("putParamset", ret.ent, ret.key)
           /\ \A i \in 2..Len(ret.calls) : ret.calls[i].method = "getParamset"
           /\ \A n \in Declared(ret.ent) :
                 \E i \in 2..Len(ret.calls) : ret.calls[i] = Call("getParamset", ret.ent, n)
\* A push on a channel that returned True although the refresh of MASTER, the first
\* paramset, failed: VALUES was fetched all the same.
C10_Witness ==
    /\ ret.op = "putParamset" /\ ret.result = "True"
    /\ ret.ent \in CHILDREN
    /\ Len(ret.calls) = 3
    /\ "MASTER" \notin DOMAIN paramsets[ret.ent]
    /\ PARAMSET_VALUES \in DOMAIN paramsets[ret.ent]

\* The calls of the proxy: values, descriptions and paramsets.
NextProxy ==
    SetValue \/ GetValue \/ DescribeParamset \/ RefreshOne \/ RefreshAll \/ Push \/ Return
SpecProxy == InitPs /\ [][NextProxy]_vars

\* The first registration of a callback on the device and its channels.
RegisterFirst == TotalLen(eventcallbacks, Entities) = 0 /\ Register
\* All the methods of HMGeneric, and the registration of HMDevice.
NextCache ==
    \/ RegisterFirst \/ Deliver \/ SetValue \/ GetValue \/ DescribeParamset
    \/ RefreshOne \/ RefreshAll \/ Push \/ Return
SpecCache == InitOne /\ [][NextCache]_vars

\* updateParamset in a thread of its own, beside the events and the reads of UNREACH.
RefreshThread ==
    \/ \E e \in Entities, paramset \in ParamsetArgs :
          \E resp \in (IF paramset = "" THEN {Fault} ELSE Responses(e, paramset)) :
              updateParamset_getParamset(e, paramset, resp)
    \/ updateParamset_store
    \/ updateParamset_unreach
NextRefreshRace == RefreshThread \/ Deliver \/ UNREACH \/ Return
SpecRefreshRace == InitPs /\ [][NextRefreshRace]_vars

\* event in the server's thread, beside the registration of callbacks.
EventThread ==
    \/ \E e \in Entities, interface_id \in InterfaceIds, kv \in EventInputs :
          event_begin(e, interface_id, kv[1], kv[2])
    \/ \E runs \in CallbackRuns : event_next(runs)
    \/ event_return
NextFanOutRace == EventThread \/ Register \/ Return
SpecFanOutRace == InitEv /\ [][NextFanOutRace]_vars

\* The node accessors of the device.
NextNode == ReadNode \/ WriteNode \/ Return
SpecNode == Init /\ [][NextNode]_vars

\* C11: updateParamsets attempts the refresh of every declared paramset, one
\* updateParamset per name, and returns True only if every one of them returned True.
C11_AllRefreshedOrFailure ==
    ret.op = "updateParamsets" =>
        /\ Len(ret.results) = Len(_PARAMSETS(ret.ent))
        /\ \A i \in 1..Len(ret.results) : ret.results[i].paramset = _PARAMSETS(ret.ent)[i]
        /\ (ret.result = "True" => \A i \in 1..Len(ret.results) : ret.results[i].ok)

\* C12: a transport fault of the proxy call of setValue, getValue,
\* getParamsetDescription, updateParamset, updateParamsets or putParamset never
\* leaves the method as an exception; setValue, getValue, updateParamset and
\* putParamset then return False, and getParamsetDescription leaves
\* _PARAMSET_DESCRIPTIONS as it was.
ProxyFacing ==
    {"setValue", "getValue", "getParamsetDescription", "updateParamset", "updateParamsets",
     "putParamset"}
C12_FaultsBecomeResults ==
    [][ret'.op \in ProxyFacing /\ ret'.fault =>
           /\ ~ret'.raised
           /\ ret'.result # "raise"
           /\ (ret'.op \in {"setValue", "getValue", "updateParamset", "putParamset"}
                  => ret'.result = "False")
           /\ (ret'.op = "getParamsetDescription"
                  => _PARAMSET_DESCRIPTIONS' = _PARAMSET_DESCRIPTIONS)]_vars
\* getParamsetDescription met a fault for a paramset whose description is cached.
C12_Witness ==
    /\ ret.op = "getParamsetDescription"
    /\ ret.fault
    /\ ret.key \in DOMAIN _PARAMSET_DESCRIPTIONS[ret.ent]

\* The table an accessor reads, the locator of a name in it, and the entity the
\* locator and the channel argument name.
NodeTable(accessor) ==
    CASE accessor = "getAttributeData" -> _ATTRIBUTENODE
      [] accessor = "getBinaryData" -> _BINARYNODE
      [] accessor = "getSensorData" -> _SENSORNODE
      [] OTHER -> _WRITENODE
Mapped(accessor, name) == name \in DOMAIN NodeTable(accessor)
NodeChannel(accessor, name, channel) ==
    LET locator == NodeTable(accessor)[name]
    IN IF locator = Self THEN Dev
       ELSE IF locator = Dynamic THEN channel ELSE locator.n
Resolves(accessor, name, channel) ==
    /\ Mapped(accessor, name)
    /\ \/ NodeTable(accessor)[name] = Self
       \/ /\ NodeChannel(accessor, name, channel) \in 1..ELEMENT
          /\ NodeChannel(accessor, name, channel) \in CHILDREN
ReadAccessors == {"getSensorData", "getBinaryData", "getAttributeData"}

\* C13: a read accessor called with a name of its table calls getValue(name) of
\* the entity its locator names, the device for None, the caller's channel for
\* 'c', channel n for n, and returns what that call returned.
C13_ReadResolves ==
    ret.op \in ReadAccessors /\ Resolves(ret.op, ret.key, ret.channel) =>
        /\ ~ret.raised
        /\ ret.calls =
              IF proxy
              THEN <<ValueCall("getValue", NodeChannel(ret.op, ret.key, ret.channel),
                               ret.key, "None")>>
              ELSE << >>

\* C14: writeNodeData called with a name of the write table resolves the entity as
\* the read accessors do and makes exactly one setValue of the proxy with that
\* entity's address, the name and the value, and returns that call's True or False.
C14_WriteResolves ==
    ret.op = "writeNodeData" /\ proxy /\ Resolves(ret.op, ret.key, ret.channel) =>
        /\ ~ret.raised
        /\ ret.calls = <<ValueCall("setValue", NodeChannel(ret.op, ret.key, ret.channel),
                                   ret.key, ret.value)>>
        /\ ret.result = Bool(~ret.fault)

\* What an accessor returns when it does not resolve: None for a read, False for
\* a write.
NodeFailure(accessor) == IF accessor = "writeNodeData" THEN "False" ELSE "None"

\* C15: an accessor called with a name its table does not have returns None (a
\* read) or False (a write) without raising and without a call of the proxy.
C15_UnmappedNameFails ==
    ret.op \in ReadAccessors \cup {"writeNodeData"} /\ ~Mapped(ret.op, ret.key) =>
        /\ ~ret.raised
        /\ ret.calls = << >>
        /\ ret.result = NodeFailure(ret.op)

\* C16: an accessor whose name resolves to a channel index outside 1..ELEMENT, or to
\* an index without a child in CHILDREN, returns its failure result without raising
\* and without a call of the proxy: index 0, a negative index, a missing child.
C16_InvalidChannelFails ==
    /\ ret.op \in ReadAccessors \cup {"writeNodeData"}
    /\ Mapped(ret.op, ret.key)
    /\ NodeTable(ret.op)[ret.key] # Self
    /\ \/ NodeChannel(ret.op, ret.key, ret.channel) \notin 1..ELEMENT
       \/ NodeChannel(ret.op, ret.key, ret.channel) \notin CHILDREN
    => /\ ~ret.raised
       /\ ret.calls = << >>
       /\ ret.result = NodeFailure(ret.op)

\* C17: _paramsets[name] of an entity changes only in updateParamset (called as
\* such, from updateParamsets or from putParamset), and the mapping it then holds is
\* the one the proxy's getParamset returned for that entity's address and that
\* name; setValue, getValue, event, setEventCallback, getParamsetDescription and
\* the data of putParamset never change it, and no cached paramset is dropped.
C17_CacheHoldsProxyAnswers ==
    [][\A e \in Entities :
          /\ DOMAIN paramsets[e] \subseteq DOMAIN paramsets'[e]
          /\ \A n \in DOMAIN paramsets'[e] :
                CacheGet(paramsets[e], n) # paramsets'[e][n] \/ n \notin DOMAIN paramsets[e] =>
                   /\ ret'.op \in {"updateParamset", "updateParamsets", "putParamset"}
                   /\ ret'.ent = e
                   /\ \E i \in 1..Len(ret'.calls) : ret'.calls[i] = Call("getParamset", e, n)
                   /\ \E i \in 1..Len(ret'.results) :
                         /\ ret'.results[i].paramset = n
                         /\ ret'.results[i].ok
                         /\ ret'.results[i].map = paramsets'[e][n]]_vars
\* putParamset pushed data, the proxy took it, and the cache holds for that
\* paramset a mapping that is not the data.
C17_Witness ==
    /\ ret.op = "putParamset"
    /\ ret.result = "True"
    /\ ret.key \in DOMAIN paramsets[ret.ent]
    /\ paramsets[ret.ent][ret.key] # ret.data

\* How often callback stands in a list of callbacks or of invocations.
Occurrences(callback, list) == Cardinality({i \in 1..Len(list) : list[i] = callback})
Invoked(callback, invoked) ==
    Cardinality({i \in 1..Len(invoked) : invoked[i].callback = callback})

\* C18: an event on an entity invokes callbacks of that entity's own list only, each
\* with that entity's address, and each as often as it stands in that list: once for
\* a callback bequeathed once, whatever the lists of the other entities hold.
C18_OwnListExactlyOnce ==
    ret.op = "event" =>
        /\ \A i \in 1..Len(ret.invoked) : ret.invoked[i].address = ADDRESS(ret.ent)
        /\ \A callback \in Callbacks :
              Invoked(callback, ret.invoked) = Occurrences(callback, eventcallbacks[ret.ent])

\* An updateParamset("VALUES") has replaced the cached paramset and the flag is
\* still the one of before the refresh, not the one of the new paramset.
HalfApplied ==
    /\ updating.at = "stored"
    /\ updating.paramset = PARAMSET_VALUES
    /\ unreach[updating.ent] = updating.before
    /\ unreach[updating.ent] # MapGet(updating.returnset, PARAM_UNREACH)

\* C19: an updateParamset("VALUES") running beside events and readers of the same
\* entity is atomic: in no state is the cached VALUES paramset replaced while the
\* flag still holds its value of before the refresh, and a flag an UNREACH event
\* has set since the proxy was asked is not overwritten by the fetched value.
C19_RefreshAtomic ==
    [][/\ ~HalfApplied'
       /\ (/\ updating.at = "stored"
           /\ updating'.at = "idle"
           /\ updating.paramset = PARAMSET_VALUES
           /\ unreach[updating.ent] # updating.before)
              => unreach'[updating.ent] = unreach[updating.ent]]_vars

\* C20: an event invokes exactly the callbacks that stood in the entity's list when
\* its delivery began, in that order, whatever is registered on the entity while it
\* runs, by another thread or by one of the callbacks.
C20_FanOutOverListAtBegin ==
    delivering.at # "idle" =>
        /\ Len(delivering.invoked) <= Len(delivering.began)
        /\ \A i \in 1..Len(delivering.invoked) :
              delivering.invoked[i].callback = delivering.began[i]
        /\ (delivering.at = "done" => Len(delivering.invoked) = Len(delivering.began))
====
